---- MODULE Spec2Model ----
(***************************************************************************)
(* A model of the satellite image analyzer: SatelliteAnalyzer              *)
(* (satellite_analyzer.py), ImageQualityAssessor (quality_assessment.py)   *)
(* and SatelliteObjectDetector (object_detector.py).                       *)
(*                                                                         *)
(* Numbers.  Python floats are modelled as exact rationals <<n, d>> in     *)
(* lowest terms with d > 0, so that every product, quotient, mean and      *)
(* comparison of the code is computed, not assumed.                        *)
(*                                                                         *)
(* Rasters.  A raster is described by what the OpenCV primitives the code  *)
(* calls read from it:                                                     *)
(*   shape        (height, width, channels)                                *)
(*   regions      its uniformly coloured connected regions, each with the  *)
(*                colour triple in channel order (channel 0, 1, 2) and     *)
(*                area2, twice the cv2.contourArea of its outer contour    *)
(*                (contour areas are multiples of 1/2)                     *)
(*   gray         what the grayscale primitives give when channel 0 is     *)
(*                read as red, as COLOR_RGB2GRAY does: the variance of the *)
(*                Laplacian, the standard deviation, the median absolute   *)
(*                deviation and the mean of the gray levels, and blobs,    *)
(*                twice the areas of the outer contours of the closed      *)
(*                Canny edge map                                           *)
(*   gray_swapped the same, were channels 0 and 2 exchanged                *)
(* Regions matched by one colour mask are taken not to touch, so that      *)
(* each is one contour of cv2.findContours.                                *)
(***************************************************************************)
EXTENDS Integers, Sequences, FiniteSets, TLC

VARIABLES
    pc,                 \* where the caller is: see Init and the actions
    image_path,         \* the argument of analyze_image
    image,              \* analyze_image's local `image` (an option)
    quality_report,     \* the last result of assess_quality (an option)
    detection_results,  \* the last result of detect_objects (an option)
    analysis_report,    \* the value analyze_image returned (an option)
    report_text,        \* the last result of generate_report
    direct              \* the last direct call of a scoring method

vars == <<pc, image_path, image, quality_report, detection_results,
          analysis_report, report_text, direct>>

(***************************************************************************)
(* Python's None, and a present value.                                     *)
(***************************************************************************)
None == <<>>
Some(x) == <<x>>
Get(o) == o[1]

(***************************************************************************)
(* Rational arithmetic.                                                    *)
(***************************************************************************)
RECURSIVE Gcd(_, _)
Gcd(a, b) == IF b = 0 THEN a ELSE Gcd(b, a % b)

Abs(n) == IF n < 0 THEN -n ELSE n

R(n, d) ==
    LET g == Gcd(Abs(n), Abs(d))
        s == IF d < 0 THEN -1 ELSE 1
    IN  <<s * (n \div g), s * (d \div g)>>

Zero == R(0, 1)
One == R(1, 1)

RAdd(x, y) ==
    LET g == Gcd(x[2], y[2])
    IN  R(x[1] * (y[2] \div g) + y[1] * (x[2] \div g), x[2] * (y[2] \div g))

RNeg(x) == <<-x[1], x[2]>>
RSub(x, y) == RAdd(x, RNeg(y))

RMul(x, y) ==
    LET a == R(x[1], y[2])
        b == R(y[1], x[2])
    IN  <<a[1] * b[1], a[2] * b[2]>>

RDiv(x, y) == RMul(x, R(y[2], y[1]))
RAbs(x) == <<Abs(x[1]), x[2]>>

RLe(x, y) == RSub(x, y)[1] <= 0
RLt(x, y) == RSub(x, y)[1] < 0
RGe(x, y) == RLe(y, x)
RGt(x, y) == RLt(y, x)

\* Python's min(x, y) on floats
RMin(x, y) == IF RLt(y, x) THEN y ELSE x

RECURSIVE RSum(_)
RSum(s) == IF s = <<>> THEN Zero ELSE RAdd(Head(s), RSum(Tail(s)))

(***************************************************************************)
(* The format specification ":.2f": the number of hundredths nearest to x  *)
(* (ties to even, as the exact value of the float is rounded), computed    *)
(* digit by digit.  Fmt2(x) = 37 stands for the text "0.37".               *)
(***************************************************************************)
\* quotient q and remainder m of 2 * (p.q * d + p.m) by d, for p.m < d
Twice(p, d) == [q |-> 2 * p.q + (2 * p.m) \div d, m |-> (2 * p.m) % d]

\* quotient and remainder of 10 * m by d, for m < d, by doubling only
Times10(m, d) ==
    LET x2 == Twice([q |-> 0, m |-> m], d)
        x8 == Twice(Twice(x2, d), d)
    IN  [q |-> x2.q + x8.q + (x2.m + x8.m) \div d, m |-> (x2.m + x8.m) % d]

Fmt2Abs(x) ==
    LET n == x[1]
        d == x[2]
        t1 == Times10(n % d, d)
        t2 == Times10(t1.m, d)
        low == 100 * (n \div d) + 10 * t1.q + t2.q
        rest == 2 * t2.m
    IN  IF rest > d \/ (rest = d /\ low % 2 = 1) THEN low + 1 ELSE low

Fmt2(x) == IF x[1] < 0 THEN -Fmt2Abs(RNeg(x)) ELSE Fmt2Abs(x)

(***************************************************************************)
(* Colour conversions (cv2.cvtColor).                                      *)
(***************************************************************************)
Max3(c) == IF c[1] >= c[2] /\ c[1] >= c[3] THEN c[1]
           ELSE IF c[2] >= c[3] THEN c[2] ELSE c[3]
Min3(c) == IF c[1] <= c[2] /\ c[1] <= c[3] THEN c[1]
           ELSE IF c[2] <= c[3] THEN c[2] ELSE c[3]

\* a / b rounded to the nearest integer, for a >= 0 and b > 0
RoundDiv(a, b) == (2 * a + b) \div (2 * b)

\* COLOR_BGR2RGB on one pixel: channels 0 and 2 change places
SwapChannels(c) == <<c[3], c[2], c[1]>>

\* COLOR_RGB2HSV on one 8-bit pixel read as (R, G, B): H in 0..180 (degrees
\* halved), S and V in 0..255
RGB2HSV(c) ==
    LET r == c[1]
        g == c[2]
        b == c[3]
        v == Max3(c)
        delta == v - Min3(c)
        s == IF v = 0 THEN 0 ELSE RoundDiv(255 * delta, v)
        h == IF delta = 0 THEN 0
             ELSE IF v = r THEN
                  IF g >= b THEN RoundDiv(30 * (g - b), delta)
                  ELSE RoundDiv(30 * (g - b) + 180 * delta, delta)
             ELSE IF v = g THEN RoundDiv(30 * (b - r) + 60 * delta, delta)
             ELSE RoundDiv(30 * (r - g) + 120 * delta, delta)
    IN  <<h, s, v>>

\* the raster with channels 0 and 2 exchanged
ExchangeChannels(img) ==
    [img EXCEPT !.regions =
                    [i \in 1..Len(img.regions) |->
                        [img.regions[i] EXCEPT
                            !.color = SwapChannels(img.regions[i].color)]],
                !.gray = img.gray_swapped,
                !.gray_swapped = img.gray]

cvtColor_BGR2RGB(img) == ExchangeChannels(img)

cvtColor_RGB2HSV(img) ==
    [img EXCEPT !.regions =
                    [i \in 1..Len(img.regions) |->
                        [img.regions[i] EXCEPT
                            !.color = RGB2HSV(img.regions[i].color)]]]

(***************************************************************************)
(* SatelliteObjectDetector.                                                *)
(***************************************************************************)
lower_blue == <<100, 50, 50>>
upper_blue == <<130, 255, 255>>
lower_green == <<35, 50, 50>>
upper_green == <<85, 255, 255>>

WaterMinArea == 100
WaterDivisor == 10000
VegetationMinArea == 100
VegetationDivisor == 8000
UrbanMinArea == 200
UrbanDivisor == 15000

\* cv2.inRange on one pixel
inRange(px, lower, upper) ==
    \A k \in 1..3 : lower[k] <= px[k] /\ px[k] <= upper[k]

\* cv2.inRange on the raster, then cv2.findContours(mask, RETR_EXTERNAL, ..):
\* the regions inside the colour range, in the raster's order
findContours(img, lower, upper) ==
    SelectSeq(img.regions, LAMBDA r : inRange(r.color, lower, upper))

contourArea(contour) == R(contour.area2, 2)

\* the loop shared by the three passes: one object per contour whose area
\* is strictly greater than min_area
Emit(contours, type, min_area, divisor) ==
    LET kept == SelectSeq(contours,
                    LAMBDA c : RGt(contourArea(c), R(min_area, 1)))
    IN  [i \in 1..Len(kept) |->
            [type |-> type,
             confidence |-> RMin(RDiv(contourArea(kept[i]), R(divisor, 1)), One),
             area |-> contourArea(kept[i])]]

\* the area filter with >= in place of >
EmitInclusive(contours, type, min_area, divisor) ==
    LET kept == SelectSeq(contours,
                    LAMBDA c : RGe(contourArea(c), R(min_area, 1)))
    IN  [i \in 1..Len(kept) |->
            [type |-> type,
             confidence |-> RMin(RDiv(contourArea(kept[i]), R(divisor, 1)), One),
             area |-> contourArea(kept[i])]]

detect_water_inclusive(hsv_image) ==
    EmitInclusive(findContours(hsv_image, lower_blue, upper_blue),
                  "water_body", WaterMinArea, WaterDivisor)

detect_water(hsv_image) ==
    Emit(findContours(hsv_image, lower_blue, upper_blue),
         "water_body", WaterMinArea, WaterDivisor)

detect_vegetation(hsv_image) ==
    Emit(findContours(hsv_image, lower_green, upper_green),
         "vegetation", VegetationMinArea, VegetationDivisor)

\* gray = RGB2GRAY(image); Canny(gray, 50, 150); MORPH_CLOSE with a 5x5
\* kernel; findContours(closed, RETR_EXTERNAL, ..): the raster's blobs
detect_urban_areas(img) ==
    Emit(img.gray.blobs, "urban_area", UrbanMinArea, UrbanDivisor)

\* the total of the confidences, not their mean
calculate_detection_confidence_total(objects) ==
    IF objects = <<>> THEN Zero
    ELSE RMin(RSum([i \in 1..Len(objects) |-> objects[i].confidence]), One)

calculate_detection_confidence(objects) ==
    IF objects = <<>> THEN Zero
    ELSE LET total_confidence ==
                 RSum([i \in 1..Len(objects) |-> objects[i].confidence])
         IN  RMin(RDiv(total_confidence, R(Len(objects), 1)), One)

detect_objects(img) ==
    LET hsv == cvtColor_RGB2HSV(img)
        objects_detected ==
            detect_water(hsv) \o detect_vegetation(hsv) \o detect_urban_areas(img)
    IN  [objects |-> objects_detected,
         confidence |-> calculate_detection_confidence(objects_detected),
         total_objects |-> Len(objects_detected)]

(***************************************************************************)
(* ImageQualityAssessor.                                                   *)
(***************************************************************************)
calculate_sharpness(img) == RDiv(img.gray.lap_var, R(1000, 1))

calculate_contrast(img) == RDiv(img.gray.std, R(128, 1))

calculate_noise_level(img) == RMin(RDiv(img.gray.mad, R(64, 1)), One)

\* the mean normalised by 128 in place of 255
calculate_brightness_by128(img) ==
    LET brightness == RDiv(img.gray.mean, R(128, 1))
    IN  RSub(One, RMul(RAbs(RSub(brightness, R(5, 10))), R(2, 1)))

calculate_brightness(img) ==
    LET brightness == RDiv(img.gray.mean, R(255, 1))
    IN  RSub(One, RMul(RAbs(RSub(brightness, R(5, 10))), R(2, 1)))

\* the thresholds compared with > in place of >=
get_quality_level_exclusive(score) ==
    IF RGt(score, R(8, 10)) THEN "Excellent"
    ELSE IF RGt(score, R(6, 10)) THEN "Good"
    ELSE IF RGt(score, R(4, 10)) THEN "Fair"
    ELSE "Poor"

get_quality_level(score) ==
    IF RGe(score, R(8, 10)) THEN "Excellent"
    ELSE IF RGe(score, R(6, 10)) THEN "Good"
    ELSE IF RGe(score, R(4, 10)) THEN "Fair"
    ELSE "Poor"

\* a default record whose overall_quality is the weighted sum of its parts
default_quality_report_weighted ==
    [sharpness |-> R(5, 10),
     contrast |-> R(5, 10),
     noise_level |-> R(3, 10),
     brightness |-> R(7, 10),
     overall_quality |-> R(59, 100),
     quality_level |-> "Estimated"]

default_quality_report ==
    [sharpness |-> R(5, 10),
     contrast |-> R(5, 10),
     noise_level |-> R(3, 10),
     brightness |-> R(7, 10),
     overall_quality |-> R(5, 10),
     quality_level |-> "Estimated"]

\* img is an option: None, or Some(raster)
assess_quality(img) ==
    IF img = None THEN default_quality_report
    ELSE LET sharpness == calculate_sharpness(Get(img))
             contrast == calculate_contrast(Get(img))
             noise_level == calculate_noise_level(Get(img))
             brightness == calculate_brightness(Get(img))
             overall_quality ==
                 RAdd(RAdd(RMul(sharpness, R(3, 10)),
                           RMul(contrast, R(25, 100))),
                      RAdd(RMul(RSub(One, noise_level), R(25, 100)),
                           RMul(brightness, R(2, 10))))
         IN  [sharpness |-> sharpness,
              contrast |-> contrast,
              noise_level |-> noise_level,
              brightness |-> brightness,
              overall_quality |-> overall_quality,
              quality_level |-> get_quality_level(overall_quality)]

(***************************************************************************)
(* SatelliteAnalyzer: the loader.                                          *)
(***************************************************************************)
Region(color, area2) == [color |-> color, area2 |-> area2]
Blob(area2) == [area2 |-> area2]
Gray(lap_var, std, mad, mean, blobs) ==
    [lap_var |-> lap_var, std |-> std, mad |-> mad, mean |-> mean,
     blobs |-> blobs]

(***************************************************************************)
(* create_sample_image: a black 512 x 512 raster, then in drawing order    *)
(*   rectangle (100,100)-(200,200) colour (70,130,180)                     *)
(*   rectangle (300,300)-(400,400) colour (80,140,190)                     *)
(*   rectangle (150,350)-(250,450) colour (40,180,40)                      *)
(*   rectangle (350,150)-(450,250) colour (50,160,50)                      *)
(*   rectangle (50,50)-(120,120)   colour (120,120,120)                    *)
(*   rectangle (400,400)-(480,480) colour (100,100,100)                    *)
(*   lines y = 256 and x = 256, 3 pixels thick, colour (200,200,200)       *)
(* The colour triples are stored in channels 0, 1, 2 as written.  A filled *)
(* rectangle (x1,y1)-(x2,y2) has contour area (x2-x1)*(y2-y1).  The fifth  *)
(* rectangle overwrites the corner (100..120)^2 of the first, whose        *)
(* contour loses 21*21 - 1/2; the sixth overwrites pixel (400,400) of the  *)
(* second, whose contour loses 1/2.  The two lines form one cross of       *)
(* contour area 2*511*2 - 2*2.                                             *)
(*                                                                         *)
(* Gray levels: read as written the statistics of the raster are variance  *)
(* of the Laplacian 852, standard deviation 51, median absolute deviation  *)
(* 0 and mean 26; with channels 0 and 2 exchanged they are 883, 54, 0 and  *)
(* 27 (each rounded to an integer).  Every shape stands out from the black *)
(* ground by more than the Canny thresholds, in either channel order, and  *)
(* shapes that overlap, or lie within the 5 x 5 closing kernel of one      *)
(* another, form one blob: the first and fifth rectangles; the second and  *)
(* sixth; the cross with the third and fourth rectangles, which end 5      *)
(* pixels from it.  A blob's area is taken as that of the drawn shapes.    *)
(***************************************************************************)
SampleBlobs ==
    << Blob(2 * (100 * 100 + 70 * 70 - 20 * 20)),
       Blob(2 * (100 * 100 + 80 * 80)),
       Blob(2 * (2 * 511 * 2 - 4 + 2 * (100 * 100 + 4 * 100))) >>

create_sample_image ==
    [shape |-> <<512, 512, 3>>,
     regions |->
        << Region(<<70, 130, 180>>, 2 * (100 * 100 - 21 * 21) + 1),
           Region(<<80, 140, 190>>, 2 * (100 * 100) - 1),
           Region(<<40, 180, 40>>, 2 * (100 * 100)),
           Region(<<50, 160, 50>>, 2 * (100 * 100)),
           Region(<<120, 120, 120>>, 2 * (70 * 70)),
           Region(<<100, 100, 100>>, 2 * (80 * 80)),
           Region(<<200, 200, 200>>, 2 * (2 * 511 * 2 - 4)) >>,
     gray |-> Gray(R(852, 1), R(51, 1), R(0, 1), R(26, 1), SampleBlobs),
     gray_swapped |-> Gray(R(883, 1), R(54, 1), R(0, 1), R(27, 1), SampleBlobs)]

(***************************************************************************)
(* cv2.imread(image_path): the decoded file as a raster in B, G, R channel *)
(* order; nothing for a file that is missing or cannot be decoded; an      *)
(* error for an argument that is no file name.                             *)
(***************************************************************************)
imread(path) ==
    CASE path.kind = "image" ->
            [raised |-> FALSE, value |-> Some(ExchangeChannels(Get(path.content)))]
      [] path.kind \in {"missing", "undecodable"} ->
            [raised |-> FALSE, value |-> None]
      [] path.kind = "invalid" ->
            [raised |-> TRUE, value |-> None]

\* how a call ends: with a value, or with an exception leaving it
Returned(value) == [raised |-> FALSE, value |-> value]
Raised == [raised |-> TRUE, value |-> None]

\* the loader without its try/except: an error of imread leaves load_image
load_image_unguarded(path) ==
    LET read == imread(path)
    IN  IF read.raised
        THEN Raised
        ELSE LET img == IF read.value = None
                        THEN create_sample_image
                        ELSE Get(read.value)
             IN  Returned(Some(cvtColor_BGR2RGB(img)))

\* try: imread, the None check, cvtColor; except Exception: the sample.
\* The value is an option: None, or Some(raster).
load_image(path) ==
    LET read == imread(path)
    IN  IF read.raised
        THEN Returned(Some(create_sample_image))
        ELSE LET img == IF read.value = None
                        THEN create_sample_image
                        ELSE Get(read.value)
             IN  Returned(Some(cvtColor_BGR2RGB(img)))

(***************************************************************************)
(* SatelliteAnalyzer: the score and the printable report.                  *)
(***************************************************************************)
\* the score without its upper clamp
calculate_overall_score_unclamped(quality, detection) ==
    RAdd(RMul(quality.overall_quality, R(6, 10)),
         RMul(detection.confidence, R(4, 10)))

calculate_overall_score(quality, detection) ==
    LET quality_score == quality.overall_quality
        detection_confidence == detection.confidence
        overall_score == RAdd(RMul(quality_score, R(6, 10)),
                              RMul(detection_confidence, R(4, 10)))
    IN  RMin(overall_score, One)

\* one line of the report: a label, its text argument and the numbers it
\* prints (a ":.2f" number as its count of hundredths)
Line(label, text, nums) == [label |-> label, text |-> text, nums |-> nums]
Rule == Line("=", "", <<50>>)

\* the report with the aggregate confidence on every object's line
generate_report_aggregate(report) ==
    IF report = None THEN << Line("No analysis data available", "", <<>>) >>
    ELSE
    LET info == Get(report).image_info
        quality == Get(report).quality_assessment
        detection == Get(report).object_detection
    IN  << Rule,
           Line("SATELLITE IMAGE ANALYSIS REPORT", "", <<>>),
           Rule,
           Line("Image Dimensions", "", info.dimensions),
           Line("File", info.file_path.name, <<>>),
           Line("QUALITY ASSESSMENT", "", <<>>),
           Line("Overall Quality", "", <<Fmt2(quality.overall_quality)>>),
           Line("Sharpness", "", <<Fmt2(quality.sharpness)>>),
           Line("Contrast", "", <<Fmt2(quality.contrast)>>),
           Line("Noise Level", "", <<Fmt2(quality.noise_level)>>),
           Line("OBJECT DETECTION", "", <<>>),
           Line("Objects Found", "", <<Len(detection.objects)>>),
           Line("Detection Confidence", "", <<Fmt2(detection.confidence)>>) >>
        \o [i \in 1..Len(detection.objects) |->
               Line("object", detection.objects[i].type,
                    <<Fmt2(detection.confidence)>>)]
        \o << Line("OVERALL USEFULNESS SCORE", "",
                   <<Fmt2(Get(report).overall_score)>>),
              Rule >>

\* report is an option: None, or Some(analysis report)
generate_report(report) ==
    IF report = None THEN << Line("No analysis data available", "", <<>>) >>
    ELSE
    LET info == Get(report).image_info
        quality == Get(report).quality_assessment
        detection == Get(report).object_detection
    IN  << Rule,
           Line("SATELLITE IMAGE ANALYSIS REPORT", "", <<>>),
           Rule,
           Line("Image Dimensions", "", info.dimensions),
           Line("File", info.file_path.name, <<>>),
           Line("QUALITY ASSESSMENT", "", <<>>),
           Line("Overall Quality", "", <<Fmt2(quality.overall_quality)>>),
           Line("Sharpness", "", <<Fmt2(quality.sharpness)>>),
           Line("Contrast", "", <<Fmt2(quality.contrast)>>),
           Line("Noise Level", "", <<Fmt2(quality.noise_level)>>),
           Line("OBJECT DETECTION", "", <<>>),
           Line("Objects Found", "", <<Len(detection.objects)>>),
           Line("Detection Confidence", "", <<Fmt2(detection.confidence)>>) >>
        \o [i \in 1..Len(detection.objects) |->
               Line("object", detection.objects[i].type,
                    <<Fmt2(detection.objects[i].confidence)>>)]
        \o << Line("OVERALL USEFULNESS SCORE", "",
                   <<Fmt2(Get(report).overall_score)>>),
              Rule >>

(***************************************************************************)
(* The inputs: the files analyze_image may be given.  A decodable file is  *)
(* described by its content in true colours (R, G, B).                     *)
(***************************************************************************)
MaxRegions == 2

Blue == <<70, 130, 180>>
Green == <<40, 180, 40>>
Tan == <<180, 130, 70>>

RegionSamples ==
    {Region(Blue, a) : a \in {200, 201, 40000}}
        \cup {Region(Green, a) : a \in {200, 201}}
        \cup {Region(Tan, 10000)}

RegionLists == UNION {[1..k -> RegionSamples] : k \in 0..MaxRegions}

BlobLists ==
    { <<>>, <<Blob(400)>>, <<Blob(401)>>, <<Blob(401), Blob(40000)>> }

\* gray statistics (variance of the Laplacian, standard deviation, median
\* absolute deviation, mean) of textured rasters, as read in R, G, B order
\* and as read with channels 0 and 2 exchanged
TexturedStats ==
    { << <<4000, R(120, 1), R(120, 1), R(255, 2)>>,
         <<4100, R(118, 1), R(120, 1), R(127, 1)>> >>,
      << <<100, R(32, 1), R(32, 1), R(128, 1)>>,
         <<110, R(33, 1), R(32, 1), R(126, 1)>> >>,
      << <<500, R(64, 1), R(16, 1), R(128, 1)>>,
         <<480, R(60, 1), R(16, 1), R(130, 1)>> >>,
      << <<50, R(16, 1), R(0, 1), R(26, 1)>>,
         <<52, R(17, 1), R(0, 1), R(27, 1)>> >>,
      << <<20, R(8, 1), R(0, 1), R(254, 1)>>,
         <<20, R(8, 1), R(0, 1), R(253, 1)>> >>,
      << <<20, R(8, 1), R(0, 1), R(1, 1)>>,
         <<20, R(8, 1), R(0, 1), R(2, 1)>> >> }

SampleShape == <<4096, 4096, 3>>

TexturedContents ==
    { [shape |-> SampleShape,
       regions |-> rs,
       gray |-> Gray(R(st[1][1], 1), st[1][2], st[1][3], st[1][4], bs),
       gray_swapped |-> Gray(R(st[2][1], 1), st[2][2], st[2][3], st[2][4], bs)] :
      rs \in RegionLists, st \in TexturedStats, bs \in BlobLists }

\* rasters of one gray level: all black, all white
UniformContents ==
    { [shape |-> SampleShape,
       regions |-> <<>>,
       gray |-> Gray(Zero, Zero, Zero, R(m, 1), <<>>),
       gray_swapped |-> Gray(Zero, Zero, Zero, R(m, 1), <<>>)] :
      m \in {0, 255} }

FileContents == TexturedContents \cup UniformContents

Path(name, kind, content) == [name |-> name, kind |-> kind, content |-> content]

Paths ==
    {Path("scene.png", "image", Some(c)) : c \in FileContents}
        \cup { Path("sample_satellite.jpg", "missing", None),
               Path("notes.txt", "undecodable", None),
               Path("None", "invalid", None) }

ScoreSamples ==
    { R(-1, 2), Zero, R(39999, 100000), R(4, 10), R(5, 10), R(6, 10),
      R(7999, 10000), R(8, 10), One, R(3, 2) }

DetectionSamples == {detect_objects(Get(load_image(p).value)) : p \in Paths}

(***************************************************************************)
(* The state machine.  analyze_image runs in four steps (load, assess,     *)
(* detect, return); generate_report, assess_quality, get_quality_level and *)
(* calculate_overall_score are public methods a caller may also use        *)
(* directly.                                                               *)
(***************************************************************************)
Call(op, score, level) == [op |-> op, score |-> score, level |-> level]

Init ==
    /\ pc = "idle"
    /\ image_path = None
    /\ image = None
    /\ quality_report = None
    /\ detection_results = None
    /\ analysis_report = None
    /\ report_text = <<>>
    /\ direct = None

\* analyze_image, lines 25-27: an exception load_image lets out leaves
\* analyze_image too; without an image analyze_image returns None
Analyze_Load(path) ==
    LET loaded == load_image(path)
    IN  /\ pc = "idle"
        /\ image_path' = Some(path)
        /\ image' = loaded.value
        /\ pc' = IF loaded.raised THEN "raised"
                 ELSE IF loaded.value = None THEN "returned"
                 ELSE "loaded"
        /\ UNCHANGED <<quality_report, detection_results, analysis_report,
                       report_text, direct>>

\* analyze_image, line 30
Analyze_Assess ==
    /\ pc = "loaded"
    /\ quality_report' = Some(assess_quality(image))
    /\ pc' = "assessed"
    /\ UNCHANGED <<image_path, image, detection_results, analysis_report,
                   report_text, direct>>

\* analyze_image, line 33
Analyze_Detect ==
    /\ pc = "assessed"
    /\ detection_results' = Some(detect_objects(Get(image)))
    /\ pc' = "detected"
    /\ UNCHANGED <<image_path, image, quality_report, analysis_report,
                   report_text, direct>>

\* analyze_image, lines 36-46
Analyze_Return ==
    /\ pc = "detected"
    /\ analysis_report' =
          Some([image_info |-> [dimensions |-> Get(image).shape,
                                file_path |-> Get(image_path)],
                quality_assessment |-> Get(quality_report),
                object_detection |-> Get(detection_results),
                overall_score |->
                    calculate_overall_score(Get(quality_report),
                                            Get(detection_results))])
    /\ pc' = "returned"
    /\ UNCHANGED <<image_path, image, quality_report, detection_results,
                   report_text, direct>>

\* generate_report(analysis_report), on what analyze_image returned or,
\* before any analysis, on None
GenerateReport ==
    /\ pc \in {"idle", "returned"}
    /\ report_text' = generate_report(analysis_report)
    /\ pc' = "rendered"
    /\ UNCHANGED <<image_path, image, quality_report, detection_results,
                   analysis_report, direct>>

\* quality_assessor.assess_quality(None)
Direct_AssessNull ==
    /\ pc = "idle"
    /\ quality_report' = Some(assess_quality(None))
    /\ pc' = "direct_assessed"
    /\ UNCHANGED <<image_path, image, detection_results, analysis_report,
                   report_text, direct>>

\* calculate_overall_score(quality_report, detection)
Direct_Score(detection) ==
    /\ pc = "direct_assessed"
    /\ detection_results' = Some(detection)
    /\ direct' = Some(Call("calculate_overall_score",
                           calculate_overall_score(Get(quality_report), detection),
                           ""))
    /\ pc' = "direct_done"
    /\ UNCHANGED <<image_path, image, quality_report, analysis_report,
                   report_text>>

\* quality_assessor.get_quality_level(score)
Direct_Level(score) ==
    /\ pc = "idle"
    /\ direct' = Some(Call("get_quality_level", score, get_quality_level(score)))
    /\ pc' = "direct_done"
    /\ UNCHANGED <<image_path, image, quality_report, detection_results,
                   analysis_report, report_text>>

\* the caller drops the results and starts again
Reset ==
    /\ pc \in {"returned", "raised", "rendered", "direct_done"}
    /\ pc' = "idle"
    /\ image_path' = None
    /\ image' = None
    /\ quality_report' = None
    /\ detection_results' = None
    /\ analysis_report' = None
    /\ report_text' = <<>>
    /\ direct' = None

Next ==
    \/ \E path \in Paths : Analyze_Load(path)
    \/ Analyze_Assess
    \/ Analyze_Detect
    \/ Analyze_Return
    \/ GenerateReport
    \/ Direct_AssessNull
    \/ \E detection \in DetectionSamples : Direct_Score(detection)
    \/ \E score \in ScoreSamples : Direct_Level(score)
    \/ Reset

Spec == Init /\ [][Next]_vars

(***************************************************************************)
(* Properties.                                                             *)
(***************************************************************************)
\* analyze_image has run its steps on a loaded image up to the assessment
Assessed == pc \in {"assessed", "detected"} \/ analysis_report # None
\* ... up to the detection
Detected == pc = "detected" \/ analysis_report # None

ObjectsOfType(objects, type) == SelectSeq(objects, LAMBDA o : o.type = type)

\* C1: every report analyze_image returns has an overall_score in the
\* closed interval [0, 1].
C1_OverallScoreInUnitInterval ==
    analysis_report # None =>
        /\ RGe(Get(analysis_report).overall_score, Zero)
        /\ RLe(Get(analysis_report).overall_score, One)

\* a report whose weighted sum exceeds 1 and whose score is the clamp 1.0
C1_Witness ==
    /\ pc = "returned"
    /\ analysis_report # None
    /\ RGt(RAdd(RMul(Get(quality_report).overall_quality, R(6, 10)),
                RMul(Get(detection_results).confidence, R(4, 10))), One)
    /\ Get(analysis_report).overall_score = One

\* C2: the aggregate confidence of detect_objects lies in [0, 1], is 0.0
\* exactly when no object was detected, and otherwise is the arithmetic
\* mean of the objects' confidences, capped at 1.0.
C2_AggregateConfidence ==
    Detected =>
        LET d == Get(detection_results)
            n == Len(d.objects)
            total == RSum([i \in 1..n |-> d.objects[i].confidence])
        IN  /\ RGe(d.confidence, Zero)
            /\ RLe(d.confidence, One)
            /\ (d.confidence = Zero) <=> (n = 0)
            /\ n > 0 => d.confidence = RMin(RMul(total, R(1, n)), One)
            /\ d.total_objects = n

\* a detection of several objects whose confidences differ
C2_Witness ==
    /\ pc = "detected"
    /\ Len(Get(detection_results).objects) >= 2
    /\ \E i, j \in 1..Len(Get(detection_results).objects) :
          Get(detection_results).objects[i].confidence
              # Get(detection_results).objects[j].confidence
    /\ RLt(Get(detection_results).confidence, One)

\* C3: every emitted object has confidence min(area / threshold, 1.0), with
\* threshold 10000 (water_body), 8000 (vegetation), 15000 (urban_area), in
\* (0, 1]; a contour is emitted exactly when its area is strictly greater
\* than 100 (water_body, vegetation) or 200 (urban_area).
C3_ObjectConfidence ==
    Detected =>
        LET objects == Get(detection_results).objects
            hsv == [i \in 1..Len(Get(image).regions) |->
                        RGB2HSV(Get(image).regions[i].color)]
            blue == {i \in 1..Len(hsv) :
                        /\ hsv[i][1] \in 100..130
                        /\ hsv[i][2] \in 50..255
                        /\ hsv[i][3] \in 50..255}
            green == {i \in 1..Len(hsv) :
                        /\ hsv[i][1] \in 35..85
                        /\ hsv[i][2] \in 50..255
                        /\ hsv[i][3] \in 50..255}
            blobs == Get(image).gray.blobs
        IN  /\ \A i \in 1..Len(objects) :
                LET o == objects[i]
                    threshold == CASE o.type = "water_body" -> 10000
                                   [] o.type = "vegetation" -> 8000
                                   [] o.type = "urban_area" -> 15000
                    least == IF o.type = "urban_area" THEN 200 ELSE 100
                IN  /\ o.confidence = RMin(RMul(o.area, R(1, threshold)), One)
                    /\ RGt(o.confidence, Zero)
                    /\ RLe(o.confidence, One)
                    /\ RGt(o.area, R(least, 1))
            /\ Len(ObjectsOfType(objects, "water_body"))
                   = Cardinality({i \in blue : Get(image).regions[i].area2 > 2 * 100})
            /\ Len(ObjectsOfType(objects, "vegetation"))
                   = Cardinality({i \in green : Get(image).regions[i].area2 > 2 * 100})
            /\ Len(ObjectsOfType(objects, "urban_area"))
                   = Cardinality({i \in 1..Len(blobs) : blobs[i].area2 > 2 * 200})

\* a blue contour of area exactly 100 is dropped beside one of area 100.5
\* that is emitted
C3_Witness ==
    /\ pc = "detected"
    /\ \E i, j \in 1..Len(Get(image).regions) :
          /\ Get(image).regions[i] = Region(Blue, 200)
          /\ Get(image).regions[j] = Region(Blue, 201)
    /\ Len(ObjectsOfType(Get(detection_results).objects, "water_body")) = 1
    /\ Get(detection_results).objects[1].confidence = R(201, 20000)

\* the path given to analyze_image made load_image fall back to the sample
Fallback == image_path # None /\ Get(image_path).kind # "image"

\* C4: the placeholder load_image falls back to, passed to detect_objects,
\* yields at least one water_body, one vegetation and one urban_area.
C4_PlaceholderYieldsAllThree ==
    (Fallback /\ Detected) =>
        \A type \in {"water_body", "vegetation", "urban_area"} :
            ObjectsOfType(Get(detection_results).objects, type) # <<>>

\* C5: load_image never raises and never returns None, whether imread
\* decodes the file, returns nothing or raises; so analyze_image always
\* returns a report.
C5_LoadAlwaysYieldsImage ==
    /\ pc # "raised"
    /\ image_path # None => (image # None /\ Get(image).shape[3] = 3)
    /\ pc = "returned" => analysis_report # None

\* analyze_image returned a report although imread raised
C5_Witness ==
    /\ pc = "returned"
    /\ Get(image_path).kind = "invalid"
    /\ analysis_report # None
    /\ Get(analysis_report).image_info.dimensions = <<512, 512, 3>>

\* the label the ordered thresholds 0.8, 0.6, 0.4 give a score
C6_LabelOf(score, level) ==
    /\ level \in {"Excellent", "Good", "Fair", "Poor"}
    /\ level = "Excellent" <=> RGe(score, R(4, 5))
    /\ level = "Good" <=> (RGe(score, R(3, 5)) /\ RLt(score, R(4, 5)))
    /\ level = "Fair" <=> (RGe(score, R(2, 5)) /\ RLt(score, R(3, 5)))
    /\ level = "Poor" <=> RLt(score, R(2, 5))

\* C6: get_quality_level gives "Excellent" from 0.8, "Good" from 0.6,
\* "Fair" from 0.4 and "Poor" below, the boundaries included in the upper
\* label; every score gets exactly one of the four labels, and
\* assess_quality on an image never gives "Estimated".
C6_QualityLevel ==
    /\ (direct # None /\ Get(direct).op = "get_quality_level") =>
           C6_LabelOf(Get(direct).score, Get(direct).level)
    /\ Assessed =>
           C6_LabelOf(Get(quality_report).overall_quality,
                      Get(quality_report).quality_level)

\* the score 0.8 itself was labelled "Excellent"
C6_Witness ==
    /\ direct # None
    /\ Get(direct).op = "get_quality_level"
    /\ Get(direct).score = R(8, 10)
    /\ Get(direct).level = "Excellent"

\* C7: assess_quality(None) returns the fixed default record, and
\* calculate_overall_score on it and a detection of confidence c is
\* min(0.5 * 0.6 + c * 0.4, 1.0).
C7_DefaultReport ==
    pc \in {"direct_assessed", "direct_done"} /\ quality_report # None =>
        /\ Get(quality_report) =
               [sharpness |-> R(1, 2), contrast |-> R(1, 2),
                noise_level |-> R(3, 10), brightness |-> R(7, 10),
                overall_quality |-> R(1, 2), quality_level |-> "Estimated"]
        /\ direct # None =>
               Get(direct).score =
                   RMin(RAdd(RMul(R(1, 2), R(3, 5)),
                             RMul(Get(detection_results).confidence, R(2, 5))),
                        One)

\* the default record was scored with a detection of positive confidence
C7_Witness ==
    /\ pc = "direct_done"
    /\ quality_report # None
    /\ Get(quality_report).quality_level = "Estimated"
    /\ RGt(Get(detection_results).confidence, Zero)
    /\ RGt(Get(direct).score, R(3, 10))

\* 1 - |mean / 255 - 0.5| * 2, as twice the distance of the mean from the
\* nearer end of 0..255, over 255
C8_Triangle(mean) ==
    IF RLe(mean, R(255, 2))
    THEN RMul(mean, R(2, 255))
    ELSE RMul(RSub(R(255, 1), mean), R(2, 255))

\* C8 as amended: calculate_brightness is 1 - |mean / 255 - 0.5| * 2; it is
\* 1.0 exactly when the mean is 127.5, falls linearly to 0 at the means 0
\* and 255, and is never negative.
C8_BrightnessTriangle ==
    Assessed =>
        LET mean == Get(image).gray.mean
            b == Get(quality_report).brightness
        IN  /\ b = C8_Triangle(mean)
            /\ (b = One) <=> (mean = R(255, 2))
            /\ RGe(b, Zero)
            /\ mean \in {R(0, 1), R(255, 1)} => b = Zero

\* a saturated (all white) image was assessed: its brightness is 0
C8_Witness ==
    /\ pc = "assessed"
    /\ Get(image).gray.mean = R(255, 1)
    /\ Get(quality_report).brightness = Zero

\* C8 as claimed: ... and some mean intensity near 0 or near 255 gives a
\* negative brightness.
C8_SomeBrightnessNegative ==
    Assessed =>
        /\ Get(quality_report).brightness = C8_Triangle(Get(image).gray.mean)
        /\ (Get(quality_report).brightness = One)
               <=> (Get(image).gray.mean = R(255, 2))
        /\ \E m2 \in 0..(2 * 255) :
               RLt(calculate_brightness([gray |-> [mean |-> R(m2, 2)]]), Zero)

\* the text has the line
Lists(text, line) == \E i \in 1..Len(text) : text[i] = line

\* what C9 as claimed and as amended share: the dimensions, the file, the
\* object count, the detection confidence, one line per object in the
\* order of detection.objects, and the overall score
C9_Common(text, report) ==
    LET detection == report.object_detection
    IN  /\ Lists(text, Line("Image Dimensions", "", report.image_info.dimensions))
        /\ Lists(text, Line("File", report.image_info.file_path.name, <<>>))
        /\ Lists(text, Line("Objects Found", "", <<Len(detection.objects)>>))
        /\ Lists(text, Line("Detection Confidence", "",
                            <<Fmt2(detection.confidence)>>))
        /\ SelectSeq(text, LAMBDA l : l.label = "object")
               = [i \in 1..Len(detection.objects) |->
                     Line("object", detection.objects[i].type,
                          <<Fmt2(detection.objects[i].confidence)>>)]
        /\ Lists(text, Line("OVERALL USEFULNESS SCORE", "",
                            <<Fmt2(report.overall_score)>>))

\* C9 as amended: the text of a report lists the dimensions, the file
\* path, the overall quality, the sharpness, the contrast and the noise
\* level (the brightness is not printed), the object count, the detection
\* confidence, one line per object in order and the overall score; for an
\* absent report it is "No analysis data available".
C9_ReportText ==
    pc = "rendered" =>
        IF analysis_report = None
        THEN report_text = << Line("No analysis data available", "", <<>>) >>
        ELSE LET quality == Get(analysis_report).quality_assessment
             IN  /\ C9_Common(report_text, Get(analysis_report))
                 /\ Lists(report_text, Line("Overall Quality", "",
                                            <<Fmt2(quality.overall_quality)>>))
                 /\ Lists(report_text, Line("Sharpness", "",
                                            <<Fmt2(quality.sharpness)>>))
                 /\ Lists(report_text, Line("Contrast", "",
                                            <<Fmt2(quality.contrast)>>))
                 /\ Lists(report_text, Line("Noise Level", "",
                                            <<Fmt2(quality.noise_level)>>))
                 /\ \A i \in 1..Len(report_text) :
                        report_text[i].label # "Brightness"

\* the text of a report with objects of different types and confidences
C9_Witness ==
    /\ pc = "rendered"
    /\ analysis_report # None
    /\ \E i, j \in 1..Len(Get(detection_results).objects) :
          /\ Get(detection_results).objects[i].type
                 # Get(detection_results).objects[j].type
          /\ Fmt2(Get(detection_results).objects[i].confidence)
                 # Fmt2(Get(detection_results).objects[j].confidence)
    /\ Len(report_text) = 15 + Len(Get(detection_results).objects)

\* C9 as claimed: the text lists each of the four quality sub-scores:
\* sharpness, contrast, noise level and brightness.
C9_ListsBrightness ==
    pc = "rendered" =>
        IF analysis_report = None
        THEN report_text = << Line("No analysis data available", "", <<>>) >>
        ELSE LET quality == Get(analysis_report).quality_assessment
             IN  /\ C9_Common(report_text, Get(analysis_report))
                 /\ Lists(report_text, Line("Sharpness", "",
                                            <<Fmt2(quality.sharpness)>>))
                 /\ Lists(report_text, Line("Contrast", "",
                                            <<Fmt2(quality.contrast)>>))
                 /\ Lists(report_text, Line("Noise Level", "",
                                            <<Fmt2(quality.noise_level)>>))
                 /\ Lists(report_text, Line("Brightness", "",
                                            <<Fmt2(quality.brightness)>>))

\* C10: whichever way the load fails, load_image returns the same pixel
\* values per channel.
C10_SamePlaceholder ==
    (Fallback /\ image # None) =>
        \A p \in Paths :
            p.kind # "image" =>
                Get(load_image(p).value).regions = Get(image).regions

====
